---- MODULE Spec2Model ----
(***************************************************************************)
(* The protocol engine of the Niimbot B1 client (src/src/main.cpp): the    *)
(* frame codec (calculateXor, createPacket, createCommand), the command    *)
(* builders (sendXxx), the transmission queue printerCommands with its     *)
(* single consumer processNextCommand, and the Arduino entry points setup  *)
(* and loop.                                                               *)
(*                                                                         *)
(* Three specifications share the definitions of the code:                 *)
(*   Spec       setup followed by loop ticks, as the firmware runs them;   *)
(*   SpecCodec  the pure codec functions applied to bounded inputs;        *)
(*   SpecApi    the command builders and the queue consumer called in any  *)
(*              order with parameters from bounded sets.                   *)
(***************************************************************************)
EXTENDS Integers, Sequences, FiniteSets, TLC

(***************************************************************************)
(* Bytes (uint8_t)                                                         *)
(***************************************************************************)
\* uint8_t holds 0 .. 255; static_cast<uint8_t> reduces modulo 256.
ByteMod == 256

Byte == 0 .. (ByteMod - 1)

ToUint8(n) == n % ByteMod

\* Bit k of byte a, k given as its weight 1, 2, 4, ... 128.
Bit(a, k) == (a \div k) % 2

\* The ^ operator on two bytes, bit by bit.
BitXor(a, b) ==
    ((Bit(a, 1) + Bit(b, 1)) % 2)
  + 2 * ((Bit(a, 2) + Bit(b, 2)) % 2)
  + 4 * ((Bit(a, 4) + Bit(b, 4)) % 2)
  + 8 * ((Bit(a, 8) + Bit(b, 8)) % 2)
  + 16 * ((Bit(a, 16) + Bit(b, 16)) % 2)
  + 32 * ((Bit(a, 32) + Bit(b, 32)) % 2)
  + 64 * ((Bit(a, 64) + Bit(b, 64)) % 2)
  + 128 * ((Bit(a, 128) + Bit(b, 128)) % 2)

Min(a, b) == IF a < b THEN a ELSE b

(***************************************************************************)
(* Bounds of the model                                                     *)
(***************************************************************************)
\* Longest row list drawn for the image content besides the literal one.
MaxRows == 2

\* Most transport writes that may fail in one run.
MaxFailures == 1

\* Longest body enumerated exhaustively for the codec (long bodies are added
\* one by one, see LongBodies).
MaxBody == 2

\* Most builder calls in one run of SpecApi.
MaxCalls == 2

(***************************************************************************)
(* namespace PrinterCommands                                               *)
(***************************************************************************)
\* 0x8E
CALIBRATE_LABEL_GAP == 142
\* 0xDC
HEARTBEAT == 220
\* 0xA3
GET_PRINT_STATUS == 163
\* 0x1A
GET_LABEL_RFID == 26
\* 0x23
SET_LABEL_TYPE == 35
\* 0x21
SET_PRINT_DENSITY == 33
\* 0x01
START_PRINT == 1
\* 0x13
SET_PRINT_DIMENSIONS == 19
\* 0xE3
END_PAGE_PRINT == 227
\* 0xF3
END_PRINT == 243
\* 0x85
PRINT_LINE == 133
\* 0x84
PRINT_WHITESPACE == 132

\* delay(100) after the status write, delay(500) after a queued write.
StatusDelay == 100

CommandDelay == 500

(***************************************************************************)
(* Frame codec                                                             *)
(***************************************************************************)
\* The for loop of calculateXor, xor_value ^= command[i] for i from the
\* second element (index 1 in the source, 2 here) to the last, left to right.
\* XorLoop runs the iterations i .. stop; XorBlocks runs the whole loop as
\* consecutive runs of sixteen iterations, each accumulator value computed
\* before the next run starts, which keeps the evaluation of a 260-byte
\* payload shallow.
RECURSIVE XorLoop(_, _, _, _)
XorLoop(command, i, stop, xor_value) ==
  IF i > stop THEN xor_value
  ELSE LET v == BitXor(xor_value, command[i])
       IN  IF v >= 0 THEN XorLoop(command, i + 1, stop, v) ELSE v

RECURSIVE XorBlocks(_, _, _)
XorBlocks(command, i, xor_value) ==
  IF i > Len(command) THEN xor_value
  ELSE LET v == XorLoop(command, i, Min(i + 15, Len(command)), xor_value)
       IN  IF v >= 0 THEN XorBlocks(command, i + 16, v) ELSE v

calculateXor_skipsLast(command) ==
  IF command = <<>> THEN <<>>
  ELSE <<XorBlocks(SubSeq(command, 1, Len(command) - 1), 2, command[1])>>

calculateXor(command) ==
  IF command = <<>> THEN <<>>
  ELSE <<XorBlocks(command, 2, command[1])>>

createPacket_checksumFirst(bodySeq) ==
  <<85, 85>> \o calculateXor(bodySeq) \o bodySeq \o <<170, 170>>

\* startSeq = {0x55, 0x55}, endSeq = {0xAA, 0xAA}
createPacket(bodySeq) ==
  <<85, 85>> \o bodySeq \o calculateXor(bodySeq) \o <<170, 170>>

createCommand_lengthOfPacket(commandCode, bodySeq) ==
  createPacket(<<commandCode>> \o <<ToUint8(Len(bodySeq) + 1)>> \o bodySeq)

createCommand(commandCode, bodySeq) ==
  createPacket(<<commandCode>> \o <<ToUint8(Len(bodySeq))>> \o bodySeq)

(***************************************************************************)
(* The image content of sendPrint                                          *)
(***************************************************************************)
\* The rows sendPrint issues literally: one whitespace band and nineteen
\* 48-byte lines.
ProgramRows ==
  <<
    [kind |-> "whitespace", startPosition |-> 0, thickness |-> 32, bodySeq |-> <<>>],
    [kind |-> "line", startPosition |-> 32, thickness |-> 1, bodySeq |->
      <<0, 0, 0, 0, 0, 0, 0, 0, 0, 0, 0, 0, 0, 0, 0, 0, 0, 0, 0, 0, 0, 0, 0, 0, 0, 0, 0, 0, 0, 0, 0, 0, 0, 0, 0, 0, 0, 0, 0, 0, 0, 0, 0, 0, 0, 0, 0, 255>>],
    [kind |-> "line", startPosition |-> 33, thickness |-> 1, bodySeq |->
      <<0, 224, 31, 0, 1, 128, 0, 255, 255, 0, 240, 15, 0, 31, 248, 0, 255, 255, 0, 255, 255, 0, 248, 31, 0, 0, 0, 0, 0, 0, 0, 0, 0, 0, 0, 0, 0, 0, 0, 0, 0, 0, 0, 0, 0, 0, 0, 255>>],
    [kind |-> "line", startPosition |-> 34, thickness |-> 1, bodySeq |->
      <<0, 240, 31, 0, 3, 192, 0, 255, 255, 0, 240, 15, 0, 127, 254, 0, 255, 255, 0, 255, 255, 0, 248, 31, 0, 0, 0, 0, 0, 0, 0, 0, 0, 0, 0, 0, 0, 0, 0, 0, 0, 0, 0, 0, 0, 0, 0, 255>>],
    [kind |-> "line", startPosition |-> 35, thickness |-> 1, bodySeq |->
      <<0, 248, 31, 0, 15, 240, 0, 255, 255, 0, 240, 15, 0, 255, 255, 0, 255, 255, 0, 255, 255, 0, 248, 31, 0, 0, 0, 0, 0, 0, 0, 0, 0, 0, 0, 0, 0, 0, 0, 0, 0, 0, 0, 0, 0, 0, 0, 255>>],
    [kind |-> "line", startPosition |-> 36, thickness |-> 1, bodySeq |->
      <<0, 252, 31, 0, 12, 48, 0, 7, 224, 0, 240, 15, 0, 248, 254, 0, 7, 224, 0, 255, 255, 0, 248, 62, 0, 0, 0, 0, 0, 0, 0, 0, 0, 0, 0, 0, 0, 0, 0, 0, 0, 0, 0, 0, 0, 0, 0, 255>>],
    [kind |-> "line", startPosition |-> 37, thickness |-> 1, bodySeq |->
      <<0, 254, 31, 0, 28, 56, 0, 7, 224, 0, 240, 15, 0, 248, 60, 0, 7, 224, 0, 240, 0, 0, 248, 60, 0, 0, 0, 0, 0, 0, 0, 0, 0, 0, 0, 0, 0, 0, 0, 0, 0, 0, 0, 0, 0, 0, 0, 255>>],
    [kind |-> "line", startPosition |-> 38, thickness |-> 1, bodySeq |->
      <<0, 255, 31, 0, 56, 28, 0, 7, 224, 0, 240, 15, 0, 248, 60, 0, 7, 224, 0, 240, 0, 0, 248, 60, 0, 0, 0, 0, 0, 0, 0, 0, 0, 0, 0, 0, 0, 0, 0, 0, 0, 0, 0, 0, 0, 0, 0, 255>>],
    [kind |-> "line", startPosition |-> 39, thickness |-> 1, bodySeq |->
      <<0, 255, 159, 0, 56, 28, 0, 7, 224, 0, 240, 15, 0, 248, 124, 0, 7, 224, 0, 240, 0, 0, 248, 124, 0, 0, 0, 0, 0, 0, 0, 0, 0, 0, 0, 0, 0, 0, 0, 0, 0, 0, 0, 0, 0, 0, 0, 255>>],
    [kind |-> "line", startPosition |-> 40, thickness |-> 1, bodySeq |->
      <<0, 251, 255, 0, 57, 156, 0, 7, 224, 0, 240, 15, 0, 255, 240, 0, 7, 224, 0, 255, 224, 0, 255, 240, 0, 0, 0, 0, 0, 0, 0, 0, 0, 0, 0, 0, 0, 0, 0, 0, 0, 0, 0, 0, 0, 0, 0, 255>>],
    [kind |-> "line", startPosition |-> 41, thickness |-> 1, bodySeq |->
      <<0, 249, 255, 0, 63, 252, 0, 7, 224, 0, 240, 15, 0, 255, 240, 0, 7, 224, 0, 255, 224, 0, 255, 240, 0, 0, 0, 0, 0, 0, 0, 0, 0, 0, 0, 0, 0, 0, 0, 0, 0, 0, 0, 0, 0, 0, 0, 255>>],
    [kind |-> "line", startPosition |-> 42, thickness |-> 1, bodySeq |->
      <<0, 248, 255, 0, 127, 254, 0, 7, 224, 0, 240, 15, 0, 255, 240, 0, 7, 224, 0, 255, 224, 0, 255, 240, 0, 0, 0, 0, 0, 0, 0, 0, 0, 0, 0, 0, 0, 0, 0, 0, 0, 0, 0, 0, 0, 0, 0, 255>>],
    [kind |-> "line", startPosition |-> 43, thickness |-> 1, bodySeq |->
      <<0, 248, 127, 0, 255, 255, 0, 7, 224, 0, 240, 15, 0, 248, 124, 0, 7, 224, 0, 255, 224, 0, 248, 124, 0, 0, 0, 0, 0, 0, 0, 0, 0, 0, 0, 0, 0, 0, 0, 0, 0, 0, 0, 0, 0, 0, 0, 255>>],
    [kind |-> "line", startPosition |-> 44, thickness |-> 1, bodySeq |->
      <<0, 248, 63, 0, 252, 63, 0, 7, 224, 0, 240, 15, 0, 248, 60, 0, 7, 224, 0, 240, 0, 0, 248, 60, 0, 0, 0, 0, 0, 0, 0, 0, 0, 0, 0, 0, 0, 0, 0, 0, 0, 0, 0, 0, 0, 0, 0, 255>>],
    [kind |-> "line", startPosition |-> 45, thickness |-> 1, bodySeq |->
      <<0, 248, 31, 0, 248, 31, 0, 7, 224, 0, 240, 15, 0, 248, 30, 0, 7, 224, 0, 240, 0, 0, 248, 30, 0, 0, 0, 0, 0, 0, 0, 0, 0, 0, 0, 0, 0, 0, 0, 0, 0, 0, 0, 0, 0, 0, 0, 255>>],
    [kind |-> "line", startPosition |-> 46, thickness |-> 1, bodySeq |->
      <<0, 248, 31, 0, 248, 31, 0, 7, 224, 0, 248, 31, 0, 248, 31, 0, 7, 224, 0, 240, 0, 0, 248, 31, 0, 0, 0, 0, 0, 0, 0, 0, 0, 0, 0, 0, 0, 0, 0, 0, 0, 0, 0, 0, 0, 0, 0, 255>>],
    [kind |-> "line", startPosition |-> 47, thickness |-> 1, bodySeq |->
      <<0, 248, 31, 0, 248, 31, 0, 7, 224, 0, 252, 63, 0, 248, 31, 0, 7, 224, 0, 240, 0, 0, 248, 31, 0, 0, 0, 0, 0, 0, 0, 0, 0, 0, 0, 0, 0, 0, 0, 0, 0, 0, 0, 0, 0, 0, 0, 255>>],
    [kind |-> "line", startPosition |-> 48, thickness |-> 1, bodySeq |->
      <<0, 248, 31, 0, 248, 31, 0, 7, 224, 0, 255, 255, 0, 248, 31, 0, 7, 224, 0, 255, 255, 0, 248, 31, 0, 0, 0, 0, 0, 0, 0, 0, 0, 0, 0, 0, 0, 0, 0, 0, 0, 0, 0, 0, 0, 0, 0, 255>>],
    [kind |-> "line", startPosition |-> 49, thickness |-> 1, bodySeq |->
      <<0, 248, 31, 0, 248, 31, 0, 7, 224, 0, 255, 255, 0, 248, 31, 0, 7, 224, 0, 255, 255, 0, 248, 31, 0, 0, 0, 0, 0, 0, 0, 0, 0, 0, 0, 0, 0, 0, 0, 0, 0, 0, 0, 0, 0, 0, 0, 255>>],
    [kind |-> "line", startPosition |-> 50, thickness |-> 1, bodySeq |->
      <<0, 248, 31, 0, 248, 31, 0, 7, 224, 0, 255, 255, 0, 248, 31, 0, 7, 224, 0, 255, 255, 0, 248, 31, 0, 0, 0, 0, 0, 0, 0, 0, 0, 0, 0, 0, 0, 0, 0, 0, 0, 0, 0, 0, 0, 0, 0, 255>>]
  >>

\* The rows a drawn list is made of: two whitespace bands, one of the literal
\* 48-byte lines and a short line.
RowChoices ==
  { [kind |-> "whitespace", startPosition |-> 0, thickness |-> 32, bodySeq |-> <<>>],
    [kind |-> "whitespace", startPosition |-> 10, thickness |-> 215, bodySeq |-> <<>>],
    ProgramRows[3],
    [kind |-> "line", startPosition |-> 225, thickness |-> 2, bodySeq |-> <<1, 0, 5>>] }

\* The row lists a run may print: every list of at most MaxRows drawn rows,
\* and the literal list of the source.
RowLists ==
  { ProgramRows } \cup UNION { [1 .. n -> RowChoices] : n \in 0 .. MaxRows }

(***************************************************************************)
(* State                                                                   *)
(***************************************************************************)
VARIABLES
  pc,                                  \* position of the control thread
  printerDeviceAddress,                \* BLEAddress *: "nullptr" or "addr"
  printerCommunicationCharacteristic,  \* "nullptr" or "chr"
  attemptConnectionToPrinter,
  connectedToPrinter,
  printing,
  printerCommands,                     \* std::queue<PrinterCommand>
  rows,                                \* the image content sendPrint issues
  rowIdx,                              \* next row of rows to issue
  pushed,                              \* history: every frame pushed, in order
  log,                                 \* history: writes, delays and pops
  nFail,                               \* failed transport writes so far
  connectResult,                       \* history: last connectToPrinter result
  retried,                             \* history: connectToPrinter has failed
  lastCall,                            \* SpecApi: the builder call just made
  cOp, cBody, cOut, cStage             \* SpecCodec: inputs, result, stage

progVars ==
  << pc, printerDeviceAddress, printerCommunicationCharacteristic,
     attemptConnectionToPrinter, connectedToPrinter, printing,
     printerCommands, rows, rowIdx, pushed, log, nFail, connectResult,
     retried >>

codecVars == << cOp, cBody, cOut, cStage >>

vars == << progVars, lastCall, codecVars >>

NoCall == [fn |-> "none", args |-> <<>>]

(***************************************************************************)
(* The transport and the queue                                             *)
(***************************************************************************)
\* One entry of the history: a writeValue call (with the characteristic it
\* went through and whether the link took it), a delay, or a pop.
WriteEv(frame, via, ok) ==
  [ev |-> "write", frame |-> frame, via |-> via,
   chr |-> printerCommunicationCharacteristic, ok |-> ok, ms |-> 0]

DelayEv(ms) ==
  [ev |-> "delay", frame |-> <<>>, via |-> "none", chr |-> "none", ok |-> TRUE, ms |-> ms]

PopEv(frame) ==
  [ev |-> "pop", frame |-> frame, via |-> "queue", chr |-> "none", ok |-> TRUE, ms |-> 0]

\* std::queue: push appends at the back, front reads and pop removes the
\* oldest element.
push_front(q, frame) == <<frame>> \o q

push(q, frame) == Append(q, frame)

front_newest(q) == q[Len(q)]

front(q) == Head(q)

\* pop leaving the queue as it is.
pop_none(q) == q

\* pop emptying the queue.
pop_all(q) == <<>>

pop_two(q) == IF Len(q) >= 2 THEN Tail(Tail(q)) ELSE <<>>

pop(q) == Tail(q)

\* printerCommands.push(frame)
Push(frame) ==
  /\ printerCommands' = push(printerCommands, frame)
  /\ pushed' = Append(pushed, frame)

\* The outcomes of a write the link may refuse: at most MaxFailures in a run.
WriteOutcomes(n) == IF n < MaxFailures THEN BOOLEAN ELSE {TRUE}

Failed(ok) == IF ok THEN 0 ELSE 1

\* writeValue through a null characteristic is undefined: the firmware may
\* stop there or go on.
AfterWrite(next) ==
  IF printerCommunicationCharacteristic = "nullptr" THEN {"crashed", next} ELSE {next}

(***************************************************************************)
(* Command builders                                                        *)
(***************************************************************************)
sendCalibrateLabelGapSignal == Push(createCommand(CALIBRATE_LABEL_GAP, <<1>>))

sendHeartbeatSignal == Push(createCommand(HEARTBEAT, <<4>>))

\* The only builder that writes at once: the frame, then delay(100).
sendGetPrintStatus(lg, ok) ==
  lg \o << WriteEv(createCommand(GET_PRINT_STATUS, <<1>>), "status", ok),
           DelayEv(StatusDelay) >>

sendGetRFID == Push(createCommand(GET_LABEL_RFID, <<1>>))

sendSetLabelType == Push(createCommand(SET_LABEL_TYPE, <<1>>))

\* sendSetDensity built with the opcode of get-print-status.
sendSetDensity_asStatus(density) == Push(createCommand(GET_PRINT_STATUS, <<density>>))

sendSetDensity(density) == Push(createCommand(SET_PRINT_DENSITY, <<density>>))

sendStartPrint == Push(createCommand(START_PRINT, <<0, 1>>))

sendPrintDimensions(width, height) ==
  Push(createCommand(SET_PRINT_DIMENSIONS, <<0, width, 1, height, 0, 1>>))

sendEndPage_twice ==
  /\ printerCommands' =
       push(push(printerCommands, createCommand(END_PAGE_PRINT, <<1>>)),
            createCommand(END_PAGE_PRINT, <<1>>))
  /\ pushed' = pushed \o << createCommand(END_PAGE_PRINT, <<1>>),
                            createCommand(END_PAGE_PRINT, <<1>>) >>

sendEndPage == Push(createCommand(END_PAGE_PRINT, <<1>>))

\* sendEndPrint leaving the printing flag up.
sendEndPrint_keepsPrinting ==
  /\ Push(createCommand(END_PRINT, <<1>>))
  /\ UNCHANGED printing

sendEndPrint ==
  /\ Push(createCommand(END_PRINT, <<1>>))
  /\ printing' = FALSE

sendPrintWhitespace_swapped(startPosition, thickness) ==
  Push(createCommand(PRINT_WHITESPACE, <<0, thickness, startPosition>>))

sendPrintWhitespace(startPosition, thickness) ==
  Push(createCommand(PRINT_WHITESPACE, <<0, startPosition, thickness>>))

sendPrintLine_swappedMarker(startPosition, thickness, bodySeq) ==
  Push(createCommand(PRINT_LINE,
                     <<0, startPosition, 50, 128, 0, thickness>> \o bodySeq))

\* positionSeq = {0x00, startPosition, 0x80, 0x32, 0x00, thickness}
sendPrintLine(startPosition, thickness, bodySeq) ==
  Push(createCommand(PRINT_LINE,
                     <<0, startPosition, 128, 50, 0, thickness>> \o bodySeq))

\* processNextCommand popping the frame before its delay(500).
processNextCommand_popBeforeDelay(q, lg, ok) ==
  IF q = <<>>
    THEN [q |-> q, lg |-> lg]
    ELSE [q |-> pop(q),
          lg |-> lg \o << WriteEv(front(q), "queue", ok), PopEv(front(q)),
                          DelayEv(CommandDelay) >>]

\* processNextCommand without its delay(500).
processNextCommand_noDelay(q, lg, ok) ==
  IF q = <<>>
    THEN [q |-> q, lg |-> lg]
    ELSE [q |-> pop(q),
          lg |-> lg \o << WriteEv(front(q), "queue", ok), PopEv(front(q)) >>]

(***************************************************************************)
(* processNextCommand                                                      *)
(***************************************************************************)
\* On an empty queue it returns at once; otherwise it writes the front
\* frame, waits 500 ms and pops.
processNextCommand(q, lg, ok) ==
  IF q = <<>> THEN [q |-> q, lg |-> lg]
  ELSE [q  |-> pop(q),
        lg |-> lg \o << WriteEv(front(q), "queue", ok),
                        DelayEv(CommandDelay),
                        PopEv(front(q)) >>]

(***************************************************************************)
(* Initial states                                                          *)
(***************************************************************************)
CodecOff ==
  /\ cOp = 0
  /\ cBody = <<>>
  /\ cOut = <<>>
  /\ cStage = "off"

\* The globals as their initialisers leave them (lines 14-23).
Globals ==
  /\ printerDeviceAddress = "nullptr"
  /\ printerCommunicationCharacteristic = "nullptr"
  /\ attemptConnectionToPrinter = FALSE
  /\ connectedToPrinter = FALSE
  /\ printing = TRUE
  /\ printerCommands = <<>>

History ==
  /\ pushed = <<>>
  /\ log = <<>>
  /\ nFail = 0
  /\ connectResult = "none"
  /\ retried = FALSE
  /\ lastCall = NoCall

Init ==
  /\ pc = "scan"
  /\ Globals
  /\ rows \in RowLists
  /\ rowIdx = 1
  /\ History
  /\ CodecOff

(***************************************************************************)
(* setup: scan and connect                                                 *)
(***************************************************************************)
\* AdvertisedPrinterDeviceCallbacks::onResult during pBLEScan->start(30):
\* a device of another name is ignored; the printer stops the scan.
onResult(nameMatches) ==
  /\ pc = "scan"
  /\ IF nameMatches
       THEN /\ printerDeviceAddress' = "addr"
            /\ attemptConnectionToPrinter' = TRUE
            /\ pc' = "connect"
       ELSE UNCHANGED << printerDeviceAddress, attemptConnectionToPrinter, pc >>
  /\ UNCHANGED << printerCommunicationCharacteristic, connectedToPrinter, connectResult, retried, printing,
                  printerCommands, rows, rowIdx, pushed, log, nFail, lastCall,
                  codecVars >>

\* pBLEScan->start(30) returns after 30 s without the printer having been seen.
ScanTimeout ==
  /\ pc = "scan"
  /\ pc' = "connect"
  /\ UNCHANGED << printerDeviceAddress, printerCommunicationCharacteristic,
                  attemptConnectionToPrinter, connectedToPrinter, connectResult, retried, printing,
                  printerCommands, rows, rowIdx, pushed, log, nFail, lastCall,
                  codecVars >>

\* connectToPrinter without its check of the service (lines 142-147).
connectToPrinter_ignoresService(serviceFound, characteristicFound) ==
  /\ pc = "connect"
  /\ \/ /\ printerDeviceAddress = "nullptr"
        /\ pc' = "crashed"
        /\ UNCHANGED << printerCommunicationCharacteristic, connectResult, retried >>
     \/ IF ~serviceFound
          THEN /\ pc' = "heartbeat"
               /\ connectResult' = "true"
               /\ UNCHANGED << printerCommunicationCharacteristic, retried >>
          ELSE /\ printerCommunicationCharacteristic' =
                    IF characteristicFound THEN "chr" ELSE "nullptr"
               /\ connectResult' = IF characteristicFound THEN "true" ELSE "false"
               /\ retried' = (retried \/ ~characteristicFound)
               /\ pc' = IF characteristicFound THEN "heartbeat" ELSE "connect"
  /\ UNCHANGED << printerDeviceAddress, attemptConnectionToPrinter, connectedToPrinter,
                  printing, printerCommands, rows, rowIdx, pushed, log, nFail,
                  lastCall, codecVars >>

\* connectToPrinter without its check of the characteristic (lines 150-154).
connectToPrinter_ignoresCharacteristic(serviceFound, characteristicFound) ==
  /\ pc = "connect"
  /\ \/ /\ printerDeviceAddress = "nullptr"
        /\ pc' = "crashed"
        /\ UNCHANGED << printerCommunicationCharacteristic, connectResult, retried >>
     \/ IF ~serviceFound
          THEN /\ pc' = "connect"
               /\ connectResult' = "false"
               /\ retried' = TRUE
               /\ UNCHANGED printerCommunicationCharacteristic
          ELSE /\ printerCommunicationCharacteristic' =
                    IF characteristicFound THEN "chr" ELSE "nullptr"
               /\ connectResult' = "true"
               /\ UNCHANGED retried
               /\ pc' = "heartbeat"
  /\ UNCHANGED << printerDeviceAddress, attemptConnectionToPrinter, connectedToPrinter,
                  printing, printerCommands, rows, rowIdx, pushed, log, nFail,
                  lastCall, codecVars >>

\* One turn of while (!connectToPrinter(*printerDeviceAddress)).  The result
\* of connect is ignored; the service and the characteristic are looked up.
\* Dereferencing a null printerDeviceAddress is undefined: the firmware may
\* stop, or go on with whatever address it read.
connectToPrinter(serviceFound, characteristicFound) ==
  /\ pc = "connect"
  /\ \/ /\ printerDeviceAddress = "nullptr"
        /\ pc' = "crashed"
        /\ UNCHANGED << printerCommunicationCharacteristic, connectResult, retried >>
     \/ IF ~serviceFound
          THEN /\ pc' = "connect"
               /\ connectResult' = "false"
               /\ retried' = TRUE
               /\ UNCHANGED printerCommunicationCharacteristic
          ELSE /\ printerCommunicationCharacteristic' =
                    IF characteristicFound THEN "chr" ELSE "nullptr"
               /\ connectResult' = IF characteristicFound THEN "true" ELSE "false"
               /\ retried' = (retried \/ ~characteristicFound)
               /\ pc' = IF characteristicFound THEN "heartbeat" ELSE "connect"
  /\ UNCHANGED << printerDeviceAddress, attemptConnectionToPrinter, connectedToPrinter,
                  printing, printerCommands, rows, rowIdx, pushed, log, nFail,
                  lastCall, codecVars >>

(***************************************************************************)
(* setup: sendHeartbeatSignal(); sendPrint(); sendGetPrintStatus();        *)
(***************************************************************************)
\* What a step of setup that only pushes leaves alone.
PushOnly ==
  UNCHANGED << printerDeviceAddress, printerCommunicationCharacteristic,
               attemptConnectionToPrinter, connectedToPrinter, connectResult, retried, printing,
               rows, log, nFail, lastCall, codecVars >>

SetupHeartbeat ==
  /\ pc = "heartbeat"
  /\ sendHeartbeatSignal
  /\ pc' = "print_rfid"
  /\ UNCHANGED rowIdx
  /\ PushOnly

PrintGetRFID ==
  /\ pc = "print_rfid"
  /\ sendGetRFID
  /\ pc' = "print_labeltype"
  /\ UNCHANGED rowIdx
  /\ PushOnly

PrintSetLabelType ==
  /\ pc = "print_labeltype"
  /\ sendSetLabelType
  /\ pc' = "print_density"
  /\ UNCHANGED rowIdx
  /\ PushOnly

PrintSetDensity ==
  /\ pc = "print_density"
  /\ sendSetDensity(3)
  /\ pc' = "print_start"
  /\ UNCHANGED rowIdx
  /\ PushOnly

PrintStartPrint ==
  /\ pc = "print_start"
  /\ sendStartPrint
  /\ pc' = "print_dimensions"
  /\ UNCHANGED rowIdx
  /\ PushOnly

PrintDimensions ==
  /\ pc = "print_dimensions"
  /\ sendPrintDimensions(240, 128)
  /\ pc' = "print_rows"
  /\ UNCHANGED rowIdx
  /\ PushOnly

\* The print data: one call per row, top to bottom.
PrintRowWhitespace ==
  /\ pc = "print_rows"
  /\ rowIdx <= Len(rows)
  /\ rows[rowIdx].kind = "whitespace"
  /\ sendPrintWhitespace(rows[rowIdx].startPosition, rows[rowIdx].thickness)
  /\ rowIdx' = rowIdx + 1
  /\ pc' = "print_rows"
  /\ PushOnly

PrintRowLine ==
  /\ pc = "print_rows"
  /\ rowIdx <= Len(rows)
  /\ rows[rowIdx].kind = "line"
  /\ sendPrintLine(rows[rowIdx].startPosition, rows[rowIdx].thickness,
                   rows[rowIdx].bodySeq)
  /\ rowIdx' = rowIdx + 1
  /\ pc' = "print_rows"
  /\ PushOnly

PrintEndPage ==
  /\ pc = "print_rows"
  /\ rowIdx > Len(rows)
  /\ sendEndPage
  /\ pc' = "print_endprint"
  /\ UNCHANGED rowIdx
  /\ PushOnly

PrintEndPrint ==
  /\ pc = "print_endprint"
  /\ sendEndPrint
  /\ pc' = "status"
  /\ UNCHANGED << printerDeviceAddress, printerCommunicationCharacteristic,
                  attemptConnectionToPrinter, connectedToPrinter, connectResult, retried,
                  rows, rowIdx, log, nFail, lastCall, codecVars >>

SetupGetPrintStatus ==
  /\ pc = "status"
  /\ \E ok \in WriteOutcomes(nFail) :
       /\ log' = sendGetPrintStatus(log, ok)
       /\ nFail' = nFail + Failed(ok)
  /\ pc' \in AfterWrite("loop")
  /\ UNCHANGED << printerDeviceAddress, printerCommunicationCharacteristic,
                  attemptConnectionToPrinter, connectedToPrinter, connectResult, retried, printing,
                  printerCommands, rows, rowIdx, pushed, lastCall, codecVars >>

(***************************************************************************)
(* loop                                                                    *)
(***************************************************************************)
\* if (printing) sendGetPrintStatus(); processNextCommand();
loop ==
  /\ pc = "loop"
  /\ \E ok1 \in WriteOutcomes(nFail) :
       /\ ~printing => ok1
       /\ \E ok2 \in WriteOutcomes(nFail + Failed(ok1)) :
            /\ printerCommands = <<>> => ok2
            /\ LET lg1 == IF printing THEN sendGetPrintStatus(log, ok1) ELSE log
                   r   == processNextCommand(printerCommands, lg1, ok2)
               IN  /\ printerCommands' = r.q
                   /\ log' = r.lg
                   /\ nFail' = nFail + Failed(ok1) + Failed(ok2)
  /\ pc' \in IF printing \/ printerCommands # <<>> THEN AfterWrite("loop") ELSE {"loop"}
  /\ UNCHANGED << printerDeviceAddress, printerCommunicationCharacteristic,
                  attemptConnectionToPrinter, connectedToPrinter, connectResult, retried, printing,
                  rows, rowIdx, pushed, lastCall, codecVars >>

Next ==
  \/ \E nameMatches \in BOOLEAN : onResult(nameMatches)
  \/ ScanTimeout
  \/ \E serviceFound \in BOOLEAN, characteristicFound \in BOOLEAN :
       connectToPrinter(serviceFound, characteristicFound)
  \/ SetupHeartbeat
  \/ PrintGetRFID
  \/ PrintSetLabelType
  \/ PrintSetDensity
  \/ PrintStartPrint
  \/ PrintDimensions
  \/ PrintRowWhitespace
  \/ PrintRowLine
  \/ PrintEndPage
  \/ PrintEndPrint
  \/ SetupGetPrintStatus
  \/ loop

Spec == Init /\ [][Next]_vars

\* The same program with its scheduling: once setup has returned, the Arduino
\* core calls loop for ever.  Nothing is assumed of the radio, nor of how long
\* the scan and the connection take.
SpecLive == Spec /\ WF_vars(loop)

(***************************************************************************)
(* SpecCodec: the codec functions on bounded inputs                        *)
(***************************************************************************)
ByteSamples == {0, 1, 85, 170, 255}

CodecOps ==
  { 0, 255, CALIBRATE_LABEL_GAP, HEARTBEAT, GET_PRINT_STATUS, GET_LABEL_RFID,
    SET_LABEL_TYPE, SET_PRINT_DENSITY, START_PRINT, SET_PRINT_DIMENSIONS,
    END_PAGE_PRINT, END_PRINT, PRINT_LINE, PRINT_WHITESPACE }

\* A body of n bytes, none of them special.
LongBody(n) == [i \in 1 .. n |-> (7 * i + 3) % ByteMod]

\* Bodies around the one-byte length limit.
LongBodies ==
  { LongBody(ByteMod - 2), LongBody(ByteMod - 1), LongBody(ByteMod),
    LongBody(ByteMod + 1), LongBody(ByteMod + 44) }

CodecBodies ==
  UNION { [1 .. n -> ByteSamples] : n \in 0 .. MaxBody }
    \cup LongBodies \cup { <<1, 2, 3>> }

InitCodec ==
  /\ pc = "codec"
  /\ Globals
  /\ rows = <<>>
  /\ rowIdx = 1
  /\ History
  /\ cOp \in CodecOps
  /\ cBody \in CodecBodies
  /\ cOut = <<>>
  /\ cStage = "input"

CodecXor ==
  /\ cStage = "input"
  /\ cOut' = calculateXor(cBody)
  /\ cStage' = "xor"
  /\ UNCHANGED << progVars, lastCall, cOp, cBody >>

CodecPacket ==
  /\ cStage = "input"
  /\ cOut' = createPacket(cBody)
  /\ cStage' = "packet"
  /\ UNCHANGED << progVars, lastCall, cOp, cBody >>

CodecCommand ==
  /\ cStage = "input"
  /\ cOut' = createCommand(cOp, cBody)
  /\ cStage' = "command"
  /\ UNCHANGED << progVars, lastCall, cOp, cBody >>

NextCodec ==
  \/ CodecXor
  \/ CodecPacket
  \/ CodecCommand

SpecCodec == InitCodec /\ [][NextCodec]_vars

(***************************************************************************)
(* SpecApi: the builders and the consumer called in any order              *)
(***************************************************************************)
ParamSamples == {3, 255}

ApiBitmaps == { <<1, 0, 5>>, <<255>> }

\* Calls made so far: the frames pushed and the status frames written.
ApiCalls ==
  Len(pushed) + Cardinality({ i \in DOMAIN log : log[i].via = "status" })

\* The state a connected session is in; the link takes every write.
InitApi ==
  /\ pc = "api"
  /\ printerDeviceAddress = "addr"
  /\ printerCommunicationCharacteristic = "chr"
  /\ attemptConnectionToPrinter = TRUE
  /\ connectedToPrinter = FALSE
  /\ printing = TRUE
  /\ printerCommands = <<>>
  /\ rows = <<>>
  /\ rowIdx = 1
  /\ pushed = <<>>
  /\ log = <<>>
  /\ nFail = MaxFailures
  /\ connectResult = "true"
  /\ retried = FALSE
  /\ lastCall = NoCall
  /\ CodecOff

\* What a builder call that only pushes leaves alone.
ApiPushOnly ==
  UNCHANGED << pc, printerDeviceAddress, printerCommunicationCharacteristic,
               attemptConnectionToPrinter, connectedToPrinter, connectResult, retried, printing,
               rows, rowIdx, log, nFail, codecVars >>

ApiCalibrateLabelGapSignal ==
  /\ pc = "api" /\ ApiCalls < MaxCalls
  /\ sendCalibrateLabelGapSignal
  /\ lastCall' = [fn |-> "sendCalibrateLabelGapSignal", args |-> <<>>]
  /\ ApiPushOnly

ApiHeartbeatSignal ==
  /\ pc = "api" /\ ApiCalls < MaxCalls
  /\ sendHeartbeatSignal
  /\ lastCall' = [fn |-> "sendHeartbeatSignal", args |-> <<>>]
  /\ ApiPushOnly

ApiGetPrintStatus ==
  /\ pc = "api" /\ ApiCalls < MaxCalls
  /\ \E ok \in WriteOutcomes(nFail) :
       /\ log' = sendGetPrintStatus(log, ok)
       /\ nFail' = nFail + Failed(ok)
  /\ lastCall' = [fn |-> "sendGetPrintStatus", args |-> <<>>]
  /\ pc' \in AfterWrite("api")
  /\ UNCHANGED << printerDeviceAddress, printerCommunicationCharacteristic,
                  attemptConnectionToPrinter, connectedToPrinter, connectResult, retried, printing,
                  printerCommands, rows, rowIdx, pushed, codecVars >>

ApiGetRFID ==
  /\ pc = "api" /\ ApiCalls < MaxCalls
  /\ sendGetRFID
  /\ lastCall' = [fn |-> "sendGetRFID", args |-> <<>>]
  /\ ApiPushOnly

ApiSetLabelType ==
  /\ pc = "api" /\ ApiCalls < MaxCalls
  /\ sendSetLabelType
  /\ lastCall' = [fn |-> "sendSetLabelType", args |-> <<>>]
  /\ ApiPushOnly

ApiSetDensity ==
  /\ pc = "api" /\ ApiCalls < MaxCalls
  /\ \E density \in ParamSamples :
       /\ sendSetDensity(density)
       /\ lastCall' = [fn |-> "sendSetDensity", args |-> <<density>>]
  /\ ApiPushOnly

ApiStartPrint ==
  /\ pc = "api" /\ ApiCalls < MaxCalls
  /\ sendStartPrint
  /\ lastCall' = [fn |-> "sendStartPrint", args |-> <<>>]
  /\ ApiPushOnly

ApiPrintDimensions ==
  /\ pc = "api" /\ ApiCalls < MaxCalls
  /\ \E width \in ParamSamples, height \in ParamSamples :
       /\ sendPrintDimensions(width, height)
       /\ lastCall' = [fn |-> "sendPrintDimensions", args |-> <<width, height>>]
  /\ ApiPushOnly

ApiEndPage ==
  /\ pc = "api" /\ ApiCalls < MaxCalls
  /\ sendEndPage
  /\ lastCall' = [fn |-> "sendEndPage", args |-> <<>>]
  /\ ApiPushOnly

ApiEndPrint ==
  /\ pc = "api" /\ ApiCalls < MaxCalls
  /\ sendEndPrint
  /\ lastCall' = [fn |-> "sendEndPrint", args |-> <<>>]
  /\ UNCHANGED << pc, printerDeviceAddress, printerCommunicationCharacteristic,
                  attemptConnectionToPrinter, connectedToPrinter, connectResult, retried,
                  rows, rowIdx, log, nFail, codecVars >>

ApiPrintWhitespace ==
  /\ pc = "api" /\ ApiCalls < MaxCalls
  /\ \E startPosition \in ParamSamples, thickness \in ParamSamples :
       /\ sendPrintWhitespace(startPosition, thickness)
       /\ lastCall' = [fn |-> "sendPrintWhitespace",
                       args |-> <<startPosition, thickness>>]
  /\ ApiPushOnly

ApiPrintLine ==
  /\ pc = "api" /\ ApiCalls < MaxCalls
  /\ \E startPosition \in ParamSamples, thickness \in ParamSamples,
        bodySeq \in ApiBitmaps :
       /\ sendPrintLine(startPosition, thickness, bodySeq)
       /\ lastCall' = [fn |-> "sendPrintLine",
                       args |-> <<startPosition, thickness, bodySeq>>]
  /\ ApiPushOnly

ApiProcessNextCommand ==
  /\ pc = "api"
  /\ \E ok \in WriteOutcomes(nFail) :
       /\ printerCommands = <<>> => ok
       /\ LET r == processNextCommand(printerCommands, log, ok)
          IN  /\ printerCommands' = r.q
              /\ log' = r.lg
       /\ nFail' = nFail + Failed(ok)
  /\ lastCall' = [fn |-> "processNextCommand", args |-> <<>>]
  /\ pc' \in IF printerCommands # <<>> THEN AfterWrite("api") ELSE {"api"}
  /\ UNCHANGED << printerDeviceAddress, printerCommunicationCharacteristic,
                  attemptConnectionToPrinter, connectedToPrinter, connectResult, retried, printing,
                  rows, rowIdx, pushed, codecVars >>

NextApi ==
  \/ ApiCalibrateLabelGapSignal
  \/ ApiHeartbeatSignal
  \/ ApiGetPrintStatus
  \/ ApiGetRFID
  \/ ApiSetLabelType
  \/ ApiSetDensity
  \/ ApiStartPrint
  \/ ApiPrintDimensions
  \/ ApiEndPage
  \/ ApiEndPrint
  \/ ApiPrintWhitespace
  \/ ApiPrintLine
  \/ ApiProcessNextCommand

SpecApi == InitApi /\ [][NextApi]_vars

(***************************************************************************)
(* Reading frames and the history                                          *)
(***************************************************************************)
\* The fields of a frame 55 55 <opcode> <len> <body...> <xor> AA AA.
OpcodeOf(frame) == frame[3]

LengthByteOf(frame) == frame[4]

BodyOf(frame) == SubSeq(frame, 5, Len(frame) - 3)

\* The XOR of all bytes of P, bit by bit: bit k of the result is set exactly
\* when an odd number of bytes of P have bit k set.
OddCount(P, k) == Cardinality({ i \in DOMAIN P : Bit(P[i], k) = 1 }) % 2

XorOfAll(P) ==
    OddCount(P, 1) + 2 * OddCount(P, 2) + 4 * OddCount(P, 4) + 8 * OddCount(P, 8)
  + 16 * OddCount(P, 16) + 32 * OddCount(P, 32) + 64 * OddCount(P, 64)
  + 128 * OddCount(P, 128)

IsWrite(e) == e.ev = "write"

IsQueueWrite(e) == e.ev = "write" /\ e.via = "queue"

IsPop(e) == e.ev = "pop"

FramesOf(events) == [i \in DOMAIN events |-> events[i].frame]

\* The frames written to the transport, in order: all of them, and those
\* processNextCommand wrote.
Written == FramesOf(SelectSeq(log, IsWrite))

QueueWritten == FramesOf(SelectSeq(log, IsQueueWrite))

Popped == FramesOf(SelectSeq(log, IsPop))

\* Positions of the history at which a frame of the given opcode is written.
WritesOf(opcode) ==
  { i \in DOMAIN log : log[i].ev = "write" /\ OpcodeOf(log[i].frame) = opcode }

\* Dequeue-and-send cycles completed before position i of the history.
PopsBefore(i) == Cardinality({ j \in 1 .. (i - 1) : log[j].ev = "pop" })

IsRowFrame(frame) == OpcodeOf(frame) \in {PRINT_LINE, PRINT_WHITESPACE}

\* The row a row frame carries, read back from its bytes.
RowOf(frame) ==
  IF OpcodeOf(frame) = PRINT_WHITESPACE
    THEN [kind |-> "whitespace", startPosition |-> frame[6], thickness |-> frame[7],
          bodySeq |-> <<>>]
    ELSE [kind |-> "line", startPosition |-> frame[6], thickness |-> frame[10],
          bodySeq |-> SubSeq(frame, 11, Len(frame) - 3)]

Drained == pc = "loop" /\ printerCommands = <<>>

C2_QueueIsFifo ==
  /\ Len(QueueWritten) <= Len(pushed)
  /\ \A i \in DOMAIN QueueWritten : QueueWritten[i] = pushed[i]
  /\ Drained => QueueWritten = pushed

C2_Witness ==
  /\ Len(QueueWritten) >= 3
  /\ QueueWritten[1] # QueueWritten[2]
  /\ QueueWritten[2] # QueueWritten[3]
  /\ printerCommands # <<>>

(***************************************************************************)
(* C3                                                                      *)
(***************************************************************************)
\* C3: for every opcode and every body of at most 255 bytes, createCommand
\* returns 55 55, the opcode, the body length, the body, the XOR of opcode,
\* length byte and body bytes, AA AA: 7 + len(body) bytes.
C3_FrameLayout ==
  (cStage = "command" /\ Len(cBody) <= 255) =>
    /\ cOut = <<85, 85, cOp, Len(cBody)>> \o cBody
                \o <<XorOfAll(<<cOp, Len(cBody)>> \o cBody)>> \o <<170, 170>>
    /\ Len(cOut) = 7 + Len(cBody)

C3_Witness ==
  /\ cStage = "command"
  /\ Len(cBody) = 255
  /\ Len(cOut) = 262
  /\ cOut[4] = 255

(***************************************************************************)
(* C4                                                                      *)
(***************************************************************************)
\* C4: calculateXor of a non-empty byte sequence is the one byte that is the
\* XOR of all its bytes (for 01 02 03 the byte 00); of the empty sequence it
\* is the empty sequence.
C4_XorChecksum ==
  cStage = "xor" =>
    /\ cBody # <<>> => cOut = <<XorOfAll(cBody)>>
    /\ cBody = <<1, 2, 3>> => cOut = <<0>>
    /\ cBody = <<>> => cOut = <<>>

C4_Witness ==
  /\ cStage = "xor"
  /\ cBody = <<1, 2, 3>>
  /\ cOut = <<0>>

(***************************************************************************)
(* C5                                                                      *)
(***************************************************************************)
\* C5: a body of 255 bytes encodes; a body of 256 bytes or more is rejected,
\* so no frame is produced for it; and the length byte of every frame
\* produced is the true length of its body.
C5_OversizeBodyRejected ==
  cStage = "command" =>
    /\ Len(cBody) = 255 => (Len(cOut) = 262 /\ LengthByteOf(cOut) = 255)
    /\ Len(cBody) >= 256 => cOut = <<>>
    /\ cOut # <<>> => LengthByteOf(cOut) = Len(cBody)

(***************************************************************************)
(* C6                                                                      *)
(***************************************************************************)
\* C6 as stated: the get-print-status frame is 55 55 A3 01 01 A2 AA AA.
C6_StatusFrameWithA2 ==
  \A i \in DOMAIN log :
    log[i].via = "status" => log[i].frame = <<85, 85, 163, 1, 1, 162, 170, 170>>

\* C6, amended: the get-print-status frame, opcode 0xA3 with body 01, is
\* 55 55 A3 01 01 A3 AA AA (the checksum is A3 ^ 01 ^ 01 = A3).
C6_StatusFrameWithA3 ==
  \A i \in DOMAIN log :
    log[i].via = "status" => log[i].frame = <<85, 85, 163, 1, 1, 163, 170, 170>>

C6_Witness ==
  /\ log # <<>>
  /\ log[1].via = "status"
  /\ Len(log[1].frame) = 8

(***************************************************************************)
(* C7                                                                      *)
(***************************************************************************)
\* The catalogue table: opcode and body for a builder call.
CatalogueOpcode(call) ==
  CASE call.fn = "sendCalibrateLabelGapSignal" -> 142
    [] call.fn = "sendHeartbeatSignal" -> 220
    [] call.fn = "sendGetPrintStatus" -> 163
    [] call.fn = "sendGetRFID" -> 26
    [] call.fn = "sendSetLabelType" -> 35
    [] call.fn = "sendSetDensity" -> 33
    [] call.fn = "sendStartPrint" -> 1
    [] call.fn = "sendPrintDimensions" -> 19
    [] call.fn = "sendEndPage" -> 227
    [] call.fn = "sendEndPrint" -> 243
    [] call.fn = "sendPrintLine" -> 133
    [] call.fn = "sendPrintWhitespace" -> 132

CatalogueBody(call) ==
  CASE call.fn = "sendCalibrateLabelGapSignal" -> <<1>>
    [] call.fn = "sendHeartbeatSignal" -> <<4>>
    [] call.fn = "sendGetPrintStatus" -> <<1>>
    [] call.fn = "sendGetRFID" -> <<1>>
    [] call.fn = "sendSetLabelType" -> <<1>>
    [] call.fn = "sendSetDensity" -> <<call.args[1]>>
    [] call.fn = "sendStartPrint" -> <<0, 1>>
    [] call.fn = "sendPrintDimensions" -> <<0, call.args[1], 1, call.args[2], 0, 1>>
    [] call.fn = "sendEndPage" -> <<1>>
    [] call.fn = "sendEndPrint" -> <<1>>
    [] call.fn = "sendPrintLine" ->
         <<0, call.args[1], 128, 50, 0, call.args[2]>> \o call.args[3]
    [] call.fn = "sendPrintWhitespace" -> <<0, call.args[1], call.args[2]>>

\* The frame the builder call just made produced: the one it wrote
\* (get-print-status) or the one it pushed at the back of the queue.
LastBuilt ==
  IF lastCall.fn = "sendGetPrintStatus"
    THEN log[Len(log) - 1].frame
    ELSE printerCommands[Len(printerCommands)]

\* C7: whatever the parameters, the frame a builder produces carries the
\* opcode and the body of its row of the catalogue table.
C7_BuildersFollowCatalogue ==
  lastCall.fn \notin {"none", "processNextCommand"} =>
    /\ OpcodeOf(LastBuilt) = CatalogueOpcode(lastCall)
    /\ BodyOf(LastBuilt) = CatalogueBody(lastCall)
    /\ LengthByteOf(LastBuilt) = Len(CatalogueBody(lastCall))

C7_Witness ==
  /\ lastCall.fn = "sendPrintLine"
  /\ lastCall.args = <<3, 255, <<1, 0, 5>> >>
  /\ BodyOf(LastBuilt) = <<0, 3, 128, 50, 0, 255, 1, 0, 5>>

(***************************************************************************)
(* C8                                                                      *)
(***************************************************************************)
\* C8: every frame pushed is handed to the transport exactly once: the
\* frames pushed are, in order, the frames popped followed by the frames
\* still queued; each popped frame was written once, by the cycle that popped
\* it; once the queue is drained every pushed frame has been written; and a
\* frame written at once (get-print-status) is never among the pushed ones.
C8_ConsumedExactlyOnce ==
  /\ pushed = Popped \o printerCommands
  /\ QueueWritten = Popped
  /\ Drained => QueueWritten = pushed
  /\ \A i \in DOMAIN log :
       log[i].via = "status" =>
         \A k \in DOMAIN pushed : pushed[k] # log[i].frame

C8_Witness ==
  /\ Drained
  /\ Len(pushed) >= 9
  /\ QueueWritten = pushed
  /\ \E i \in DOMAIN log : log[i].via = "status"

RowsWritten == SelectSeq(Written, IsRowFrame)

\* C10: start-print (0x01) and then set-dimensions (0x13) are written before
\* any row frame; the row frames written are, in order, the rows the caller
\* issued, each with its start position, thickness and bitmap bytes; once the
\* queue is drained every row has been written, once.
C10_RowsInOrderAfterStartAndDimensions ==
  /\ \A r \in WritesOf(PRINT_LINE) \cup WritesOf(PRINT_WHITESPACE) :
       \E a \in WritesOf(START_PRINT), b \in WritesOf(SET_PRINT_DIMENSIONS) :
         a < b /\ b < r
  /\ \A b \in WritesOf(SET_PRINT_DIMENSIONS) :
       \E a \in WritesOf(START_PRINT) : a < b
  /\ Len(RowsWritten) <= Len(rows)
  /\ \A i \in DOMAIN RowsWritten : RowOf(RowsWritten[i]) = rows[i]
  /\ Drained => Len(RowsWritten) = Len(rows)

C10_Witness ==
  /\ Drained
  /\ Len(rows) = 2
  /\ rows[1].kind = "line"
  /\ rows[1].bodySeq = <<1, 0, 5>>
  /\ rows[2].kind = "whitespace"
  /\ Len(RowsWritten) = 2


(***************************************************************************)
(* C11                                                                     *)
(***************************************************************************)
\* A step in which a frame of the given opcode is written.
WritesNow(opcode) == WritesOf(opcode)' # WritesOf(opcode)

EndPageFrame == createCommand(END_PAGE_PRINT, <<1>>)

EndPrintFrame == createCommand(END_PRINT, <<1>>)

Idle == pc = "loop" /\ ~printing /\ WritesOf(END_PRINT) # {}

\* C12: in every run that remains idle for ever, heartbeat frames (0xDC) are
\* written to the transport infinitely often.
C12_HeartbeatInfinitelyOftenWhenIdle ==
  <>[]Idle => []<><<WritesNow(HEARTBEAT)>>_vars


(***************************************************************************)
(* C13                                                                     *)
(***************************************************************************)
\* Positions before j of the history at which processNextCommand writes.
QueueWritesBefore(j) == { i \in 1 .. (j - 1) : IsQueueWrite(log[i]) }

\* The position of the last of them.
LastQueueWriteBefore(j) ==
  CHOOSE i \in QueueWritesBefore(j) : \A h \in QueueWritesBefore(j) : h <= i

\* C13: a frame whose write failed is not removed from the queue unsent: the
\* write that comes last before the removal of a frame is a write of that
\* frame which the transport took.
C13_FailedWriteIsRetried ==
  \A j \in DOMAIN log :
    IsPop(log[j]) =>
      /\ QueueWritesBefore(j) # {}
      /\ log[LastQueueWriteBefore(j)].frame = log[j].frame
      /\ log[LastQueueWriteBefore(j)].ok


(***************************************************************************)
(* C14                                                                     *)
(***************************************************************************)
\* C14: until connectToPrinter has returned true nothing is enqueued and
\* nothing is written, and setup is still scanning or connecting (or has
\* stopped); a call that returned false is followed by another call only; and
\* connectToPrinter has returned true only with the communication
\* characteristic found, which is looked up only in a service that was found.
C14_NothingSentBeforeConnected ==
  /\ connectResult # "true" =>
       /\ pushed = <<>>
       /\ printerCommands = <<>>
       /\ log = <<>>
       /\ pc \in {"scan", "connect", "crashed"}
  /\ connectResult = "false" => pc \in {"connect", "crashed"}
  /\ connectResult = "true" =>
       /\ printerCommunicationCharacteristic = "chr"
       /\ pc \notin {"scan", "connect"}

C14_Witness ==
  /\ connectResult = "false"
  /\ pc = "connect"
  /\ printerDeviceAddress = "addr"
  /\ attemptConnectionToPrinter
  /\ pushed = <<>>
  /\ log = <<>>


(***************************************************************************)
(* C15                                                                     *)
(***************************************************************************)
\* C15: printing is true in every state in which end-print (0xF3) has not
\* yet been written to the transport, and false in every state in which it
\* has.
C15_PrintingUntilEndPrintSent ==
  /\ WritesOf(END_PRINT) = {} => printing
  /\ WritesOf(END_PRINT) # {} => ~printing


(***************************************************************************)
(* C16                                                                     *)
(***************************************************************************)
\* C16: a call of loop made while no job is active (printing is false)
\* performs nothing: it writes nothing to the transport and leaves the queue
\* as it is.
C16_IdleTickDoesNothing ==
  [][(pc = "loop" /\ ~printing) =>
       (log' = log /\ printerCommands' = printerCommands)]_vars


C18_OneFrameInFlight ==
  \A i \in DOMAIN log :
    /\ IsWrite(log[i]) => (i < Len(log) /\ log[i + 1].ev = "delay")
    /\ IsQueueWrite(log[i]) => (i < Len(log) /\ log[i + 1] = DelayEv(CommandDelay))
    /\ IsPop(log[i]) =>
         /\ i >= 3
         /\ log[i - 1] = DelayEv(CommandDelay)
         /\ IsQueueWrite(log[i - 2])
         /\ log[i - 2].frame = log[i].frame

C18_Witness ==
  /\ Len(QueueWritten) >= 2
  /\ Len(Popped) >= 2
  /\ Len(Written) >= 3
  /\ printerCommands # <<>>


(***************************************************************************)
(* C19                                                                     *)
(***************************************************************************)
\* The globals processNextCommand has no business with.
SessionFlags ==
  << printerDeviceAddress, printerCommunicationCharacteristic,
     attemptConnectionToPrinter, connectedToPrinter, printing >>

\* C19: a call of processNextCommand with an empty queue writes nothing and
\* leaves the queue and the session flags as they are; a call with a
\* non-empty queue writes exactly the front frame and removes exactly that
\* frame, leaving the rest of the queue and the flags as they are.
C19_ProcessNextCommandEffect ==
  [][lastCall'.fn = "processNextCommand" =>
       /\ UNCHANGED SessionFlags
       /\ pushed' = pushed
       /\ IF printerCommands = <<>>
            THEN /\ log' = log
                 /\ printerCommands' = <<>>
            ELSE /\ Written' = Append(Written, Head(printerCommands))
                 /\ Popped' = Append(Popped, Head(printerCommands))
                 /\ printerCommands' = Tail(printerCommands)]_vars

C19_Witness ==
  /\ lastCall.fn = "processNextCommand"
  /\ Len(pushed) = 2
  /\ pushed[1] # pushed[2]
  /\ Written = <<pushed[1]>>
  /\ printerCommands = <<pushed[2]>>


(***************************************************************************)
(* C20                                                                     *)
(***************************************************************************)
\* C20: printing is false in every state after setup has returned, so loop
\* never polls the status: get-print-status is written at most once, by
\* setup; once setup has returned it has been written exactly once; and it
\* is the first frame written, before every frame of the queue.
C20_StatusWrittenOnceAndFirst ==
  /\ pc = "loop" => ~printing
  /\ Cardinality(WritesOf(GET_PRINT_STATUS)) <= 1
  /\ pc = "loop" => Cardinality(WritesOf(GET_PRINT_STATUS)) = 1
  /\ \A i \in DOMAIN log : log[i].via = "status" <=> i = 1
  /\ Written # <<>> => OpcodeOf(Written[1]) = GET_PRINT_STATUS
  /\ \A k \in DOMAIN Written :
       k >= 2 => OpcodeOf(Written[k]) # GET_PRINT_STATUS

C20_Witness ==
  /\ Drained
  /\ ~printing
  /\ Len(Written) = Len(rows) + 9
  /\ Len(rows) = 2
  /\ WritesOf(GET_PRINT_STATUS) = {1}


(***************************************************************************)
(* C21                                                                     *)
(***************************************************************************)
\* C21: every write to the transport, by sendGetPrintStatus and by
\* processNextCommand, is made with printerCommunicationCharacteristic
\* non-null, whether or not calls of connectToPrinter failed before the one
\* that succeeded: the characteristic is non-null wherever a write can be
\* made, and no run has stopped at a write.
C21_WritesHaveCharacteristic ==
  /\ \A i \in DOMAIN log : IsWrite(log[i]) => log[i].chr = "chr"
  /\ pc \in {"status", "loop"} => printerCommunicationCharacteristic = "chr"
  /\ pc = "crashed" => log = <<>>

C21_Witness ==
  /\ retried
  /\ \E i \in DOMAIN log : log[i].via = "status" /\ log[i].chr = "chr"
  /\ \E i \in DOMAIN log : IsQueueWrite(log[i]) /\ log[i].chr = "chr"
  /\ Len(Written) >= 3


(***************************************************************************)
(* C22                                                                     *)
(***************************************************************************)
\* C22: once setup has returned nothing is enqueued again: a call of loop
\* pushes nothing, leaves an empty queue empty and writes nothing then, and
\* takes exactly one frame off a non-empty queue, and loop goes on being
\* called; so the queue becomes empty and stays empty; and when it is empty
\* end-print (0xF3) is the last frame written, for good.
C22_QueueDrainsAndStaysEmpty ==
  /\ [][pc = "loop" =>
          /\ pc' = "loop"
          /\ pushed' = pushed
          /\ Len(printerCommands') <= Len(printerCommands)
          /\ printerCommands # <<>> =>
               Len(printerCommands') = Len(printerCommands) - 1
          /\ printerCommands = <<>> =>
               (printerCommands' = <<>> /\ log' = log)]_vars
  /\ [](Drained =>
          /\ Written # <<>>
          /\ Written[Len(Written)] = EndPrintFrame
          /\ Cardinality(WritesOf(END_PRINT)) = 1)
  /\ (pc = "loop") ~> Drained
  /\ [](Drained => []Drained)

C22_Witness ==
  /\ Drained
  /\ Len(rows) >= 1
  /\ Len(pushed) = Len(rows) + 8
  /\ Popped = pushed
  /\ Written[Len(Written)] = EndPrintFrame

====
